---- MODULE Spec2Model ----
(***************************************************************************)
(* Model of mandelbrot.py: the escape-time loop n_for_point, the grid      *)
(* sampler calc_frame, the easing function log_step and the frame loop     *)
(* that main() hands to FuncAnimation / animation.save.                    *)
(*                                                                         *)
(* Python floats are modelled as decimal fixed-point numbers: the integer  *)
(* v stands for the real v / Scale, and every product or quotient is       *)
(* rounded to the nearest unit, as a float operation rounds to the nearest *)
(* representable value.  NaN is a distinguished value that propagates      *)
(* through the arithmetic and makes every comparison false.                *)
(***************************************************************************)
EXTENDS Integers, Sequences, FiniteSets, TLC

VARIABLES
    pc,           \* position of the running program / function
    res,          \* main: res (-r)            calc_frame: res
    n_max,        \* main: n_max (-n), a Python int
    fcount,       \* main: fcount (-f)
    zoom_max,     \* main: zoom_max (-m), fixed-point
    zoom_factor,  \* main: zoom_factor (-z), a Python int
    i,            \* next frame index animation.save will draw
    calls,        \* the frame indices update_graph was called with, in order
    pbar,         \* the progress bar's current value
    x_shape,      \* update_graph / calc_frame: x_shape
    y_shape,      \* update_graph / calc_frame: y_shape
    depth,        \* the n_max argument update_graph passes to calc_frame
    ns,           \* the grid calc_frame returned last
    err,          \* the exception that ended the run, "" when none
    hist,         \* what each completed update_graph call computed, in order
    n,            \* n_for_point: n
    c,            \* n_for_point: c
    z,            \* n_for_point: z
    pt_n_max      \* n_for_point: the n_max argument

vars == <<pc, res, n_max, fcount, zoom_max, zoom_factor, i, calls, pbar,
          x_shape, y_shape, depth, ns, err, hist, n, c, z, pt_n_max>>

mainVars == <<n_max, fcount, zoom_max, zoom_factor, i, calls, pbar, err, hist>>
frameVars == <<res, x_shape, y_shape, depth, ns>>
pointVars == <<n, c, z, pt_n_max>>

----------------------------------------------------------------------------
(* Bounds of the model. *)

MaxIter == 4          \* n_for_point is run with n_max in 1..MaxIter
CoordMax == 6         \* point coordinates are k/2 for k in -CoordMax..CoordMax
MaxRes == 3           \* res in 0..MaxRes
MaxFrames == 3        \* fcount in 0..MaxFrames
MaxZoomFactor == 3    \* zoom_factor in 0..MaxZoomFactor
DepthSpread == 3      \* n_max in {0, 1, 20 - DepthSpread, 20, 20 + DepthSpread}

----------------------------------------------------------------------------
(* Fixed-point arithmetic standing for Python's float arithmetic. *)

Scale == 10^3

NaN == -(10^9)

\* n / d rounded to the nearest integer (d > 0)
Round(num, d) == (2 * num + d) \div (2 * d)

FAdd(a, b) == IF a = NaN \/ b = NaN THEN NaN ELSE a + b

FSub(a, b) == IF a = NaN \/ b = NaN THEN NaN ELSE a - b

FMul(a, b) == IF a = NaN \/ b = NaN THEN NaN ELSE Round(a * b, Scale)

\* a float times or divided by a Python int
FScale(k, a) == IF a = NaN THEN NaN ELSE k * a

FDivInt(a, k) ==
    IF a = NaN THEN NaN
    ELSE IF k = 0 THEN NaN                \* numpy: 0.0 / 0 is nan (a warning, no exception)
    ELSE IF k > 0 THEN Round(a, k) ELSE Round(-a, -k)

FLe(a, b) == a # NaN /\ b # NaN /\ a <= b

FFloor(a) == a \div Scale

----------------------------------------------------------------------------
(* n_for_point (lines 20-36). *)

\* Python's complex product and sum, componentwise on floats
CMul(a, b) == <<FSub(FMul(a[1], b[1]), FMul(a[2], b[2])),
                FAdd(FMul(a[1], b[2]), FMul(a[2], b[1]))>>

CAdd(a, b) == <<FAdd(a[1], b[1]), FAdd(a[2], b[2])>>

\* the test written abs(w) >= 2
AbsGt2Strict(w) == w[1] # NaN /\ w[2] # NaN /\ w[1] * w[1] + w[2] * w[2] >= 4 * Scale * Scale

\* line 33: abs(w) > 2, decided on the squares; false when a component is NaN
AbsGt2(w) == w[1] # NaN /\ w[2] # NaN /\ w[1] * w[1] + w[2] * w[2] > 4 * Scale * Scale

\* line 32: z = z*z+c
LoopBody(zz, cc) == CAdd(CMul(zz, zz), cc)

\* the loop test written n - 1 <= n_max, and written n < n_max
LoopCondLoose(nn, nmax) == FLe((nn - 1) * Scale, nmax)

LoopCondStrict(nn, nmax) == nmax # NaN /\ nn * Scale < nmax

\* line 31: while n <= n_max (n a Python int, n_max an int or a float)
LoopCond(nn, nmax) == FLe(nn * Scale, nmax)

\* lines 31-36 run to completion from the loop state (nn, zz)
RECURSIVE while_loop(_, _, _, _)
while_loop(nn, zz, cc, nmax) ==
    IF LoopCond(nn, nmax)
    THEN LET z2 == LoopBody(zz, cc)
         IN  IF AbsGt2(z2) THEN nn ELSE while_loop(nn + 1, z2, cc, nmax)
    ELSE nn

\* the whole function: n = 1, c = complex(xr, xi), z = complex(0, 0), the loop, return n
n_for_point(xr, xi, nmax) == while_loop(1, <<0, 0>>, <<xr, xi>>, nmax)

(* The function as a process: one action per pass of the loop. *)

Coords == {k * (Scale \div 2) : k \in -CoordMax..CoordMax}

idleFrame == /\ res = 0 /\ x_shape = <<0, 0>> /\ y_shape = <<0, 0>>
             /\ depth = 0 /\ ns = <<>>

idleMain == /\ n_max = 0 /\ fcount = 0 /\ zoom_max = 0 /\ zoom_factor = 0
            /\ i = 0 /\ calls = <<>> /\ pbar = 0 /\ err = "" /\ hist = <<>>

idlePoint == /\ n = 0 /\ c = <<0, 0>> /\ z = <<0, 0>> /\ pt_n_max = 0

\* the state after lines 28-30, for a call n_for_point(xr, xi, m)
InitPoint ==
    /\ pc = "loop"
    /\ \E xr \in Coords, xi \in Coords : c = <<xr, xi>>
    /\ \E m \in 1..MaxIter : pt_n_max = m * Scale
    /\ n = 1
    /\ z = <<0, 0>>
    /\ idleFrame /\ idleMain

\* lines 31-35: one pass of the loop body
LoopIter ==
    /\ pc = "loop"
    /\ LoopCond(n, pt_n_max)
    /\ z' = LoopBody(z, c)
    /\ IF AbsGt2(z')
       THEN pc' = "returned" /\ n' = n            \* break, then return n
       ELSE pc' = "loop" /\ n' = n + 1
    /\ UNCHANGED <<c, pt_n_max, mainVars, frameVars>>

\* line 31 false, line 36: return n
LoopExit ==
    /\ pc = "loop"
    /\ ~LoopCond(n, pt_n_max)
    /\ pc' = "returned"
    /\ UNCHANGED <<pointVars, mainVars, frameVars>>

NextPoint == LoopIter \/ LoopExit

SpecPoint == InitPoint /\ [][NextPoint]_vars

\* the interpreter runs the loop on: a pass that can be taken is taken
LiveSpecPoint == SpecPoint /\ WF_vars(NextPoint)

(* The escape time by its definition: z_0 = 0, z_k = z_(k-1)^2 + c. *)

NormSq(w) == w[1] * w[1] + w[2] * w[2]

\* the orbit z_1, z_2, ... of cc, up to z_m or to its first element beyond 2
RECURSIVE RefOrbit(_, _, _)
RefOrbit(s, cc, m) ==
    IF Len(s) >= m \/ (s # <<>> /\ NormSq(s[Len(s)]) > 4 * Scale * Scale)
    THEN s
    ELSE LET p == IF s = <<>> THEN <<0, 0>> ELSE s[Len(s)]
         IN  RefOrbit(Append(s, CAdd(CMul(p, p), cc)), cc, m)

\* the least k in 1..m with |z_k| > 2, and m + 1 when there is none
RefEscapeTime(cc, m) ==
    LET orbit   == RefOrbit(<<>>, cc, m)
        escapes == {k \in DOMAIN orbit : NormSq(orbit[k]) > 4 * Scale * Scale}
    IN  IF escapes = {} THEN m + 1
        ELSE CHOOSE k \in escapes : \A j \in escapes : k <= j

MaxIterOf(nmax) == nmax \div Scale

\* C1: for every finite point and every maxIterations >= 1 the loop counter n
\* stays in 1..maxIterations+1 in every state of the loop, and the call
\* terminates, returning such an n.
C1_EscapeTimeInRange ==
    /\ [](pc \in {"loop", "returned"} => n \in 1..(MaxIterOf(pt_n_max) + 1))
    /\ <>(pc = "returned")

\* a call that ran all its passes and returned the sentinel maxIterations + 1
C1_Witness ==
    /\ pc = "returned"
    /\ MaxIterOf(pt_n_max) = MaxIter
    /\ n = MaxIter + 1
    /\ c # <<0, 0>>

\* C2: n_for_point returns the least k in 1..maxIterations with |z_k| > 2 and
\* maxIterations + 1 when there is none; a point with |c| > 2 returns 1 and
\* c = 0 returns maxIterations + 1.
C2_EscapeTimeIsReference ==
    pc = "returned" =>
        /\ n = RefEscapeTime(c, MaxIterOf(pt_n_max))
        /\ (NormSq(c) > 4 * Scale * Scale => n = 1)
        /\ (c = <<0, 0>> => n = MaxIterOf(pt_n_max) + 1)

\* a call that escaped strictly inside the range, after more than one pass
C2_Witness ==
    /\ pc = "returned"
    /\ n > 1
    /\ n <= MaxIterOf(pt_n_max)
    /\ AbsGt2(z)

----------------------------------------------------------------------------
(* calc_frame (lines 39-53). *)

\* np.linspace(start, stop, num): num samples start + k * step with
\* step = (stop - start) / (num - 1), the last one set to stop itself;
\* for num = 1 the only sample is start
linspace(start, stop, num) ==
    [k \in 1..num |->
        IF num = 1 THEN FAdd(start, FScale(0, FSub(stop, start)))
        ELSE IF k = num THEN stop
        ELSE FAdd(start, FScale(k - 1, FDivInt(FSub(stop, start), num - 1)))]

\* np.meshgrid(xv, yv, indexing='ij'): the first array varies along the rows
meshgrid_ij(xv, yv) ==
    << [r \in 1..Len(xv) |-> [cl \in 1..Len(yv) |-> xv[r]]],
       [r \in 1..Len(xv) |-> [cl \in 1..Len(yv) |-> yv[cl]]] >>

\* np.meshgrid(xv, yv): two arrays of shape (len(yv), len(xv)), the first
\* repeating xv in every row, the second repeating yv down every column
meshgrid(xv, yv) ==
    << [r \in 1..Len(yv) |-> [cl \in 1..Len(xv) |-> xv[cl]]],
       [r \in 1..Len(yv) |-> [cl \in 1..Len(xv) |-> yv[r]]] >>

shape(m) == <<Len(m), IF Len(m) = 0 THEN 0 ELSE Len(m[1])>>

\* m.ravel(): the rows of m one after the other
ravel(m) ==
    LET rows == shape(m)[1]
        cols == shape(m)[2]
    IN  [k \in 1..(rows * cols) |-> m[((k - 1) \div cols) + 1][((k - 1) % cols) + 1]]

\* np.c_[a, b]: the sequence of pairs (a[k], b[k])
c_(a, b) == [k \in 1..Len(a) |-> <<a[k], b[k]>>]

\* flat.reshape(shp)
reshape(flat, shp) ==
    [r \in 1..shp[1] |-> [cl \in 1..shp[2] |-> flat[(r - 1) * shp[2] + cl]]]

calc_frame(xs, ys, rs, nmax) ==
    LET x_vector == linspace(xs[1], xs[2], rs)
        y_vector == linspace(ys[1], ys[2], rs)
        plains   == meshgrid(x_vector, y_vector)
        x_plain  == plains[1]
        y_plain  == plains[2]
        coords   == c_(ravel(x_plain), ravel(y_plain))
        flat     == [k \in 1..Len(coords) |->
                        n_for_point(coords[k][1], coords[k][2], nmax)]
    IN  reshape(flat, shape(x_plain))

(* The function as a process: called once on drawn arguments. *)

AxisValues == {-2 * Scale, -(3 * Scale) \div 4, 0, Scale \div 10, Scale, 2 * Scale}

AxisBounds == {b \in AxisValues \X AxisValues : b[1] <= b[2]}

InitGrid ==
    /\ pc = "calc"
    /\ x_shape \in AxisBounds
    /\ y_shape \in AxisBounds
    /\ res \in 1..MaxRes
    /\ \E m \in 1..MaxIter : depth = m * Scale
    /\ ns = <<>>
    /\ idleMain /\ idlePoint

CalcFrame ==
    /\ pc = "calc"
    /\ ns' = calc_frame(x_shape, y_shape, res, depth)
    /\ pc' = "framed"
    /\ UNCHANGED <<res, x_shape, y_shape, depth, mainVars, pointVars>>

NextGrid == CalcFrame

SpecGrid == InitGrid /\ [][NextGrid]_vars

Abs(v) == IF v < 0 THEN -v ELSE v

\* sample k of R over the bounds b is start + (k-1) * (stop - start) / (R - 1),
\* up to the rounding of the step; the first is b's minimum, the last its maximum
EvenlySpaced(v, b, R) ==
    /\ Len(v) = R
    /\ v[1] = b[1]
    /\ (R > 1 => v[R] = b[2])
    /\ \A k \in 1..R :
          R > 1 => Abs((R - 1) * (v[k] - b[1]) - (k - 1) * (b[2] - b[1])) <= (R - 1) * (k - 1)

----------------------------------------------------------------------------
(* log_step (lines 8-17). *)

\* np.e
E == 2718

\* b ** x for a Python int x >= 0
RECURSIVE FPowInt(_, _)
FPowInt(b, x) == IF x = 0 THEN Scale ELSE FMul(FPowInt(b, x - 1), b)

\* e ** r for 0 <= r < 1, by its series 1 + r + r^2/2! + ... + r^7/7!
ExpFrac(r) ==
    LET t2 == Round(r * r, 2 * Scale)
        t3 == Round(t2 * r, 3 * Scale)
        t4 == Round(t3 * r, 4 * Scale)
        t5 == Round(t4 * r, 5 * Scale)
        t6 == Round(t5 * r, 6 * Scale)
        t7 == Round(t6 * r, 7 * Scale)
    IN  Scale + r + t2 + t3 + t4 + t5 + t6 + t7

\* e ** y for a float y >= 0
FExp(y) == FMul(FPowInt(E, y \div Scale), ExpFrac(y % Scale))

\* the least Python int k with e ** k > a
RECURSIVE IntLogAbove(_, _)
IntLogAbove(k, a) == IF FPowInt(E, k) > a THEN k ELSE IntLogAbove(k + 1, a)

\* the greatest y in lo..hi-1 with e ** y <= a, given e ** lo <= a < e ** hi
RECURSIVE LogSearch(_, _, _)
LogSearch(lo, hi, a) ==
    IF hi - lo <= 1 THEN lo
    ELSE LET mid == (lo + hi) \div 2
         IN  IF FExp(mid) <= a THEN LogSearch(mid, hi, a) ELSE LogSearch(lo, mid, a)

\* np.log(a) for a float a >= 1: the float y whose exponential is a, rounded down
FLog(a) ==
    IF a = NaN THEN NaN
    ELSE LET k == IntLogAbove(1, a)
         IN  LogSearch((k - 1) * Scale, k * Scale, a)

\* step / step_max on two Python ints (step_max # 0)
TrueDiv(step, step_max) == Round(step * Scale, step_max)

\* line 17 raises ZeroDivisionError when step_max is 0: step / step_max divides
\* two Python ints
log_step_raises(step, step_max, x) == step_max = 0

\* line 17 with the steps counted from the end
log_step_reversed(step, step_max, x) ==
    FDivInt(FLog(FAdd(Scale, FMul(FSub(FPowInt(E, x), Scale),
                                  TrueDiv(step_max - step, step_max)))), x)

\* line 17: np.log(1+((np.e**x)-1)*(step/step_max))/x
log_step(step, step_max, x) ==
    FDivInt(FLog(FAdd(Scale, FMul(FSub(FPowInt(E, x), Scale),
                                  TrueDiv(step, step_max)))), x)

----------------------------------------------------------------------------
(* main (lines 56-131): the configuration, update_graph and the frame loop. *)

\* line 93: zoom_on = (-.75, .1)
zoom_on == <<-(3 * Scale) \div 4, Scale \div 10>>

\* lines 94-97
x_dist_l == Abs(-2 * Scale - zoom_on[1])

x_dist_h == Abs(2 * Scale - zoom_on[1])

y_dist_l == Abs(-2 * Scale - zoom_on[2])

y_dist_h == Abs(2 * Scale - zoom_on[2])

\* line 118: the depth of the first frame
MinDepth == 20

\* the axis with the factor (1 - zoom_max) left out
axis_shape_unscaled(dist_l, dist_h, zmax, f) ==
    << FAdd(-2 * Scale, FMul(dist_l, f)), FSub(2 * Scale, FMul(dist_h, f)) >>

\* lines 114-117: one axis of the frame, from its two distances to zoom_on
axis_shape(dist_l, dist_h, zmax, f) ==
    << FAdd(-2 * Scale, FMul(FMul(dist_l, FSub(Scale, zmax)), f)),
       FSub(2 * Scale, FMul(FMul(dist_h, FSub(Scale, zmax)), f)) >>

\* line 118: 20+(n_max-20)*log_step(...), handed to calc_frame as it is
frame_depth(nmax, f) == FAdd(MinDepth * Scale, FScale(nmax - MinDepth, f))

\* lines 114-118: what update_graph(k) computes when log_step does not raise
update_graph(k) ==
    LET f  == log_step(k, fcount - 1, zoom_factor)
        xs == axis_shape(x_dist_l, x_dist_h, zoom_max, f)
        ys == axis_shape(y_dist_l, y_dist_h, zoom_max, f)
        d  == frame_depth(n_max, f)
    IN  [i |-> k, x_shape |-> xs, y_shape |-> ys, depth |-> d,
         ns |-> calc_frame(xs, ys, res, d)]

\* the values the command line can set (lines 85-92); no line of main checks them
Resolutions == 0..MaxRes

NMaxes == {0, 1, MinDepth - DepthSpread, MinDepth, MinDepth + DepthSpread}

FCounts == 0..MaxFrames

ZoomMaxes == {1, Scale \div 4, Scale \div 2, Scale}

ZoomFactors == 0..MaxZoomFactor

\* the state after line 110: the options are read, the progress bar shows 0
Init ==
    /\ pc = "save"
    /\ res \in Resolutions
    /\ n_max \in NMaxes
    /\ fcount \in FCounts
    /\ zoom_max \in ZoomMaxes
    /\ zoom_factor \in ZoomFactors
    /\ i = 0
    /\ calls = <<>>
    /\ hist = <<>>
    /\ pbar = 0
    /\ err = ""
    /\ x_shape = <<0, 0>> /\ y_shape = <<0, 0>> /\ depth = 0 /\ ns = <<>>
    /\ idlePoint

\* one call update_graph(k) by the animation (lines 113-120); on success the
\* program goes on at `next`.  ax.imshow is the renderer's: of an empty grid it
\* may or may not succeed.
CallUpdateGraph(k, next) ==
    /\ calls' = Append(calls, k)
    /\ IF log_step_raises(k, fcount - 1, zoom_factor)
       THEN /\ pc' = "error"
            /\ err' = "ZeroDivisionError"
            /\ UNCHANGED <<x_shape, y_shape, depth, ns, hist, pbar>>
       ELSE LET r == update_graph(k)
            IN  /\ x_shape' = r.x_shape
                /\ y_shape' = r.y_shape
                /\ depth' = r.depth
                /\ ns' = r.ns
                /\ hist' = Append(hist, r)
                /\ \E shown \in (IF r.ns = <<>> THEN BOOLEAN ELSE {TRUE}) :
                      IF shown
                      THEN pc' = next /\ pbar' = k + 1 /\ err' = ""        \* line 120
                      ELSE pc' = "error" /\ pbar' = pbar /\ err' = "imshow"

\* line 128, animation.save: FuncAnimation was given no init_func (line 124), so
\* the animation first draws the first item of the frame sequence range(fcount)
\* to initialise the figure; an empty sequence is skipped with a warning
InitDraw ==
    /\ pc = "save"
    /\ IF fcount > 0
       THEN CallUpdateGraph(0, "frames")
       ELSE pc' = "frames" /\ UNCHANGED <<calls, x_shape, y_shape, depth, ns, hist, pbar, err>>
    /\ i' = 0
    /\ UNCHANGED <<res, n_max, fcount, zoom_max, zoom_factor, pointVars>>

\* line 128, animation.save: the next frame of range(fcount) is drawn and grabbed
DrawFrame ==
    /\ pc = "frames"
    /\ i < fcount
    /\ CallUpdateGraph(i, "frames")
    /\ i' = i + 1
    /\ UNCHANGED <<res, n_max, fcount, zoom_max, zoom_factor, pointVars>>

\* lines 128-131: the frames are exhausted, the writer finishes, pbar.finish().
\* A writer that was given no frame at all may fail.
Finish ==
    /\ pc = "frames"
    /\ i >= fcount
    /\ \E written \in (IF fcount > 0 THEN {TRUE} ELSE BOOLEAN) :
          IF written
          THEN pc' = "done" /\ pbar' = fcount /\ err' = ""
          ELSE pc' = "error" /\ pbar' = pbar /\ err' = "writer"
    /\ UNCHANGED <<res, n_max, fcount, zoom_max, zoom_factor, i, calls, hist,
                   x_shape, y_shape, depth, ns, pointVars>>

Next == InitDraw \/ DrawFrame \/ Finish

Spec == Init /\ [][Next]_vars

----------------------------------------------------------------------------
(* The claims about the frame loop. *)

FullAxis == <<-2 * Scale, 2 * Scale>>

\* the configurations the scheduler's and the sampler's contracts admit
ValidConfig ==
    /\ fcount >= 2
    /\ zoom_factor > 0
    /\ res >= 1
    /\ n_max >= 1
    /\ zoom_max > 0 /\ zoom_max <= Scale

InvalidConfig == fcount < 1 \/ res < 1 \/ n_max < 1 \/ zoom_factor <= 0

\* the completed calls for two consecutive frame indices
Consecutive(a, b) == hist[b].i = hist[a].i + 1

Inside(new, old) == old[1] <= new[1] /\ new[1] <= new[2] /\ new[2] <= old[2]

\* C3: with frameCount = 1 the only frame has fraction 0: drawing it raises no
\* division by zero and its viewport is the full [-2, 2] x [-2, 2].
C3_SingleFrameIsSpecialCased ==
    (fcount = 1 /\ res >= 1 /\ n_max >= 1 /\ zoom_factor > 0 /\ calls # <<>>) =>
        /\ pc # "error"
        /\ err # "ZeroDivisionError"
        /\ hist # <<>>
        /\ hist[1].x_shape = FullAxis
        /\ hist[1].y_shape = FullAxis

\* C4: a configuration with frameCount < 1, resolution < 1, maxIterations < 1 or
\* zoomSpeed <= 0 is rejected before any frame is computed: update_graph is
\* never called and the run does not complete.
C4_InvalidConfigIsRejected ==
    InvalidConfig => (calls = <<>> /\ pc # "done")

\* C5: in a valid configuration the viewport of frame i+1 lies inside the
\* viewport of frame i on both axes, low(i) <= low(i+1) <= high(i+1) <= high(i).
C5_ViewportsAreNested ==
    ValidConfig =>
        \A a \in DOMAIN hist, b \in DOMAIN hist :
            Consecutive(a, b) =>
                /\ Inside(hist[b].x_shape, hist[a].x_shape)
                /\ Inside(hist[b].y_shape, hist[a].y_shape)

\* a finished run of at least three frames whose viewport really shrank
C5_Witness ==
    /\ ValidConfig
    /\ pc = "done"
    /\ fcount >= 3
    /\ \E a \in DOMAIN hist, b \in DOMAIN hist :
          /\ Consecutive(a, b)
          /\ hist[a].i >= 1
          /\ hist[a].x_shape[1] < hist[b].x_shape[1]
          /\ hist[b].y_shape[2] < hist[a].y_shape[2]

\* C6: in a valid configuration (maxIterations >= 1, frameCount >= 2,
\* zoomSpeed > 0) the depth handed to the sampler never decreases from one
\* frame to the next and is maxIterations at the last frame.
C6_DepthNeverDecreases ==
    ValidConfig =>
        /\ \A a \in DOMAIN hist, b \in DOMAIN hist :
              Consecutive(a, b) => hist[a].depth <= hist[b].depth
        /\ \A a \in DOMAIN hist :
              hist[a].i = fcount - 1 => hist[a].depth = n_max * Scale

\* C7: the driver computes exactly one grid per frame index, for 0, 1, ...,
\* frameCount - 1 in strictly increasing order, and then finishes; the progress
\* counter after frame i is i + 1 and never exceeds frameCount.
C7_OneGridPerFrameInOrder ==
    ValidConfig =>
        /\ \A k \in DOMAIN calls : calls[k] = k - 1
        /\ Len(calls) <= fcount
        /\ pbar <= fcount
        /\ (pc = "frames" /\ calls # <<>>) => pbar = calls[Len(calls)] + 1
        /\ pc = "done" => Len(calls) = fcount

CellPoint(h, row, col) ==
    << linspace(h.x_shape[1], h.x_shape[2], res)[col],
       linspace(h.y_shape[1], h.y_shape[2], res)[row] >>

\* every cell of h is at most D + 1, a point that never escapes has D + 1
CellsBoundedBy(h, D) ==
    \A row \in DOMAIN h.ns : \A col \in DOMAIN h.ns[row] :
        /\ h.ns[row][col] <= D + 1
        /\ RefEscapeTime(CellPoint(h, row, col), D) = D + 1 => h.ns[row][col] = D + 1

====
